---- MODULE Spec2Model ----
(***************************************************************************)
(* The POST /transcode handler of the transcoding service, as a state      *)
(* machine.  The repository holds three versions of the handler:           *)
(*   "index1"  src/index.js lines 1-153   (staging created before the try, *)
(*             thumbnail and upload errors only logged)                    *)
(*   "index2"  src/index.js lines 155-306 (reads the undeclared name       *)
(*             tempOutputDir right after creating the staging)             *)
(*   "part0"   src/unnamed/part_000       (every error is fatal)           *)
(* A deployment runs one of them; `variant` says which.  Each handler is   *)
(* an async function: the code between two awaits runs atomically, and an  *)
(* action of the model is one such block, fired by the completion of the   *)
(* awaited call.  Several requests are in flight at once and share the     *)
(* process's file system, the record store and the blob store.             *)
(***************************************************************************)
EXTENDS Integers, Sequences, FiniteSets, TLC

\* Number of POST /transcode requests the model lets arrive.
NumReqs == 2
\* Number of media segments one HLS transcode writes beside the playlist.
NumSegs == 1

Reqs == 1..NumReqs
Variants == {"index1", "index2", "part0"}

\* req.body.videoId: a video with a row in `videos`, one without, or missing.
VideoIds == {"v1", "v2", "v3"}
Known == {"v1", "v2"}
NoId == "none"

Outcomes == {"ok", "error"}

\* Files of the HLS staging directory: name, numeric suffix (0: none), extension.
ThumbnailFile == [name |-> "thumbnail", n |-> 0, ext |-> "png"]
PlaylistFile == [name |-> "playlist", n |-> 0, ext |-> "m3u8"]
SegmentFile(i) == [name |-> "playlist", n |-> i, ext |-> "ts"]
SegmentFiles == {SegmentFile(i) : i \in 1..NumSegs}
HlsOutput == {PlaylistFile} \cup SegmentFiles
Files == {ThumbnailFile} \cup HlsOutput
NoFile == [name |-> "", n |-> 0, ext |-> ""]

\* file.endsWith('.m3u8') ? 'application/vnd.apple.mpegurl' : 'video/MP2T'
ContentType(file) ==
  IF file.ext = "m3u8" THEN "application/vnd.apple.mpegurl" ELSE "video/MP2T"

\* Storage keys written to the record: `${videoId}/playlist.m3u8`, `${videoId}.png`.
HlsKey(vid, file) == <<vid, file.name, file.ext>>
ThumbnailFileName(vid) == <<vid, "png">>
Null == <<>>

VARIABLES
  variant,     \* which version of the handler the process runs
  req,         \* per request: position in the handler and what it has done
  rawDir,      \* whether temp_raw exists
  hlsDir,      \* whether temp_hls exists
  rawFiles,    \* files of temp_raw: the video ids whose source was written
  hlsFiles,    \* files of temp_hls: file -> request whose encoder wrote it (0: absent)
  videos,      \* record store: video id -> row
  thumbnails   \* keys present in the thumbnails bucket

vars == <<variant, req, rawDir, hlsDir, rawFiles, hlsFiles, videos, thumbnails>>
fsVars == <<rawDir, hlsDir, rawFiles, hlsFiles>>

\* res.status(400).send({ error: 'videoId is required' })
BadRequest == [status |-> 400, error |-> "videoId is required", message |-> ""]
\* res.status(202).send({ message: `Accepted. Processing video: ${videoId}` })
Accepted == [status |-> 202, error |-> "", message |-> "Accepted. Processing video"]

PendingRow == [status |-> "pending", hls_path |-> Null, thumbnail_path |-> Null]

IdleReq ==
  [pc |-> "idle", vid |-> NoId, resp |-> <<>>, log |-> <<>>,
   lookupRes |-> "none", dlRes |-> "none", thumbRes |-> "none",
   transRes |-> "none", thumbUpRes |-> "none",
   todo |-> {}, cur |-> NoFile, curOwner |-> 0, ups |-> {},
   reported |-> FALSE,
   final |-> [status |-> "none", hls_path |-> Null, thumbnail_path |-> Null]]

Init ==
  /\ variant \in Variants
  /\ req = [r \in Reqs |-> IdleReq]
  /\ rawDir = FALSE
  /\ hlsDir = FALSE
  /\ rawFiles = {}
  /\ hlsFiles = [f \in Files |-> 0]
  /\ videos = [v \in Known |-> PendingRow]
  /\ thumbnails = {}

----------------------------------------------------------------------------
\* Helpers on one request's record.

Log(j, e) == [j EXCEPT !.log = Append(@, e)]

\* Catch, had the catch block also answered the caller with a 500.
Catch_Responding(j) ==
  Log(Log([j EXCEPT !.pc = "updateFailed", !.final.status = "failed",
                    !.todo = {}, !.cur = NoFile, !.curOwner = 0,
                    !.resp = Append(@, [status |-> 500, error |-> "failed", message |-> ""])],
          "res.500"),
      "db.update.failed")

\* catch (error) { ...; await supabaseAdmin.from('videos').update({ status: 'failed' }) }
Catch(j) ==
  Log([j EXCEPT !.pc = "updateFailed", !.final.status = "failed",
                !.todo = {}, !.cur = NoFile, !.curOwner = 0],
      "db.update.failed")

\* await supabaseAdmin.from('videos').update({ status: 'ready', hls_path, thumbnail_path })
UpdateReady(j, thumbPath) ==
  Log([j EXCEPT !.pc = "updateReady",
                !.final = [status |-> "ready",
                           hls_path |-> HlsKey(j.vid, PlaylistFile),
                           thumbnail_path |-> thumbPath],
                !.todo = {}, !.cur = NoFile, !.curOwner = 0],
      "db.update.ready")

\* fs.existsSync(localThumbnailPath)
ThumbnailExists(files) == files[ThumbnailFile] # 0

\* fs.readdirSync(tempHlsDir), given that the directory exists
ReadDir(files) == {f \in Files : files[f] # 0}

\* NextUploads, had the loop started each upload without awaiting it.
NextUploads_Unawaited(j, files, thumbPath) ==
  IF j.todo = {}
  THEN {UpdateReady(j, thumbPath)}
  ELSE {IF files[f] = 0
        THEN Catch(j)
        ELSE UpdateReady(Log([j EXCEPT !.todo = @ \ {f}], "storage.hls.upload"),
                         thumbPath) : f \in j.todo}

\* One turn of `for (const file of hlsFiles)`: readFileSync of the next file and the
\* start of its upload, or, the list exhausted, the 'ready' update.  readdirSync
\* fixes no order, so any remaining file may be next.  readFileSync throws when
\* the file is gone.
NextUploads(j, files, thumbPath) ==
  IF j.todo = {}
  THEN {UpdateReady(j, thumbPath)}
  ELSE {IF files[f] = 0
        THEN Catch(j)
        ELSE Log([j EXCEPT !.pc = "hlsUpload", !.cur = f, !.curOwner = files[f],
                           !.todo = @ \ {f}],
                 "storage.hls.upload") : f \in j.todo}

\* const hlsFiles = fs.readdirSync(tempHlsDir), which throws when the directory
\* is gone, then the first turn of the loop.
StartHlsUpload(j, dir, files, thumbPath) ==
  IF ~dir
  THEN {Catch(j)}
  ELSE NextUploads([j EXCEPT !.todo = ReadDir(files)], files, thumbPath)

\* The select('raw_path').eq('id', videoId).single() call returns data only for
\* an existing row, and may return an error for any row.
LookupOutcomes(vid) == IF vid \in Known THEN Outcomes ELSE {"error"}

\* storage.from('thumbnails').upload(key, buf, { contentType }) carries no
\* upsert option: the store refuses a key that already holds an object.
ThumbUploadOutcomes(vid) ==
  IF ThumbnailFileName(vid) \in thumbnails THEN {"error"} ELSE Outcomes

\* The encoder ends without error only if its input file and its output
\* directory are there; it may fail in any case.
EncoderOutcomes(vid) ==
  IF rawDir /\ hlsDir /\ vid \in rawFiles THEN Outcomes ELSE {"error"}

\* fs.rmSync(tempRawDir, ...); fs.rmSync(tempHlsDir, { recursive: true, force: true })
Cleanup ==
  /\ rawDir' = FALSE
  /\ rawFiles' = {}
  /\ hlsDir' = FALSE
  /\ hlsFiles' = [f \in Files |-> 0]

\* The awaited update resolves: the row, if there is one and the store reported
\* no error, takes the fields of the update.  The returned { error } is not
\* looked at: after the 'ready' update console.log(`Video ${videoId} ready!`)
\* runs in either case.  Then the finally block runs.
UpdateDone(r) ==
  /\ req[r].pc \in {"updateReady", "updateFailed"}
  /\ \E out \in Outcomes :
       LET j == req[r]
           applied == out = "ok" /\ j.vid \in Known
       IN /\ videos' = IF ~applied THEN videos
                       ELSE IF j.final.status = "ready"
                            THEN [videos EXCEPT ![j.vid] = j.final]
                            ELSE [videos EXCEPT ![j.vid].status = "failed"]
          /\ req' = [req EXCEPT ![r] =
                       Log([j EXCEPT !.pc = "done",
                                     !.reported = (j.final.status = "ready")],
                           "fs.rm")]
  /\ Cleanup
  /\ UNCHANGED <<variant, thumbnails>>

----------------------------------------------------------------------------
\* src/index.js, lines 29-149.

\* The request arrives: the 400, or the 202, the two mkdirSync calls outside
\* the try (either may throw, which rejects the handler's promise with nothing
\* to catch it) and the start of the record lookup.
Index1_Receive(r) ==
  /\ variant = "index1"
  /\ req[r].pc = "idle"
  /\ \E vid \in VideoIds \cup {NoId}, mkRaw \in Outcomes, mkHls \in Outcomes :
       LET j == [req[r] EXCEPT !.vid = vid] IN
       IF vid = NoId
       THEN /\ mkRaw = "ok" /\ mkHls = "ok"
            /\ req' = [req EXCEPT ![r] =
                         Log([j EXCEPT !.pc = "rejected", !.resp = Append(@, BadRequest)],
                             "res.400")]
            /\ UNCHANGED fsVars
       ELSE LET a == Log([j EXCEPT !.resp = Append(@, Accepted)], "res.202")
                b == Log(a, "fs.mkdir.raw")
                c == Log(b, "fs.mkdir.hls")
            IN /\ (mkRaw = "error" => mkHls = "ok")
               /\ req' = [req EXCEPT ![r] =
                            IF mkRaw = "error" THEN [b EXCEPT !.pc = "crashed"]
                            ELSE IF mkHls = "error" THEN [c EXCEPT !.pc = "crashed"]
                            ELSE Log([c EXCEPT !.pc = "lookup"], "db.select")]
               /\ rawDir' = (rawDir \/ mkRaw = "ok")
               /\ hlsDir' = (hlsDir \/ (mkRaw = "ok" /\ mkHls = "ok"))
               /\ UNCHANGED <<rawFiles, hlsFiles>>
  /\ UNCHANGED <<variant, videos, thumbnails>>

\* Index1_LookupDone, had line 53 not tested dbError and videoData.
Index1_LookupDone_Unchecked(r) ==
  /\ variant = "index1"
  /\ req[r].pc = "lookup"
  /\ \E out \in LookupOutcomes(req[r].vid) :
       req' = [req EXCEPT ![r] =
                 Log([req[r] EXCEPT !.lookupRes = out, !.pc = "download"],
                     "storage.raw.download")]
  /\ UNCHANGED <<variant, fsVars, videos, thumbnails>>

\* The lookup resolves: throw on error or no data, else start the download.
Index1_LookupDone(r) ==
  /\ variant = "index1"
  /\ req[r].pc = "lookup"
  /\ \E out \in LookupOutcomes(req[r].vid) :
       LET j == [req[r] EXCEPT !.lookupRes = out] IN
       req' = [req EXCEPT ![r] =
                 IF out = "error" THEN Catch(j)
                 ELSE Log([j EXCEPT !.pc = "download"], "storage.raw.download")]
  /\ UNCHANGED <<variant, fsVars, videos, thumbnails>>

\* The download resolves: throw on error; else writeFileSync(localRawPath),
\* which throws when temp_raw is gone, and the start of the screenshot.
Index1_DownloadDone(r) ==
  /\ variant = "index1"
  /\ req[r].pc = "download"
  /\ \E out \in Outcomes :
       LET j == [req[r] EXCEPT !.dlRes = out]
           written == out = "ok" /\ rawDir
       IN /\ req' = [req EXCEPT ![r] =
                       IF written
                       THEN Log([j EXCEPT !.pc = "thumb"], "ffmpeg.screenshots")
                       ELSE Catch(j)]
          /\ rawFiles' = IF written THEN rawFiles \cup {j.vid} ELSE rawFiles
  /\ UNCHANGED <<variant, rawDir, hlsDir, hlsFiles, videos, thumbnails>>

\* The screenshot ends: 'end' and 'error' both resolve; then the HLS transcode
\* is started.
Index1_ThumbDone(r) ==
  /\ variant = "index1"
  /\ req[r].pc = "thumb"
  /\ \E out \in EncoderOutcomes(req[r].vid) :
       LET j == [req[r] EXCEPT !.thumbRes = out] IN
       /\ req' = [req EXCEPT ![r] = Log([j EXCEPT !.pc = "transcode"], "ffmpeg.hls")]
       /\ hlsFiles' = IF out = "ok" THEN [hlsFiles EXCEPT ![ThumbnailFile] = r]
                       ELSE hlsFiles
  /\ UNCHANGED <<variant, rawDir, hlsDir, rawFiles, videos, thumbnails>>

\* thumbnail_path: fs.existsSync(localThumbnailPath) ? thumbnailFileName : null
Index1_ThumbnailPath(vid, files) ==
  IF ThumbnailExists(files) THEN ThumbnailFileName(vid) ELSE Null

\* What one upload did: bucket, file, content type sent, result.
Upload(bucket, file, ctype, res) ==
  [bucket |-> bucket, file |-> file, ctype |-> ctype, res |-> res]

\* The transcode ends: on error throw 'HLS transcoding failed'; else the
\* playlist and segments are in temp_hls, and the thumbnail is uploaded if
\* thumbnail.png is there, else the HLS upload starts at once.
Index1_TranscodeDone(r) ==
  /\ variant = "index1"
  /\ req[r].pc = "transcode"
  /\ \E out \in EncoderOutcomes(req[r].vid) :
       LET j == [req[r] EXCEPT !.transRes = out]
           files == IF out = "ok"
                    THEN [f \in Files |-> IF f \in HlsOutput THEN r ELSE hlsFiles[f]]
                    ELSE hlsFiles
           next == IF out = "error" THEN {Catch(j)}
                   ELSE IF ThumbnailExists(files)
                   THEN {Log([j EXCEPT !.pc = "thumbUpload", !.cur = ThumbnailFile,
                                       !.curOwner = files[ThumbnailFile]],
                             "storage.thumbnails.upload")}
                   ELSE StartHlsUpload(j, hlsDir, files,
                                       Index1_ThumbnailPath(j.vid, files))
       IN /\ hlsFiles' = files
          /\ \E n \in next : req' = [req EXCEPT ![r] = n]
  /\ UNCHANGED <<variant, rawDir, hlsDir, rawFiles, videos, thumbnails>>

\* The thumbnail upload resolves: an error is only logged; then readdirSync and
\* the first HLS upload.
Index1_ThumbUploadDone(r) ==
  /\ variant = "index1"
  /\ req[r].pc = "thumbUpload"
  /\ \E out \in ThumbUploadOutcomes(req[r].vid) :
       LET j == [req[r] EXCEPT
                   !.thumbUpRes = out,
                   !.ups = @ \cup {Upload("thumbnails", ThumbnailFile, "image/png", out)}]
       IN /\ thumbnails' = IF out = "ok"
                           THEN thumbnails \cup {ThumbnailFileName(j.vid)}
                           ELSE thumbnails
          /\ \E n \in StartHlsUpload(j, hlsDir, hlsFiles,
                                      Index1_ThumbnailPath(j.vid, hlsFiles)) :
               req' = [req EXCEPT ![r] = n]
  /\ UNCHANGED <<variant, fsVars, videos>>

\* One HLS upload resolves: an error is only logged; then the next file, or
\* the 'ready' update.
Index1_HlsUploadDone(r) ==
  /\ variant = "index1"
  /\ req[r].pc = "hlsUpload"
  /\ \E out \in Outcomes :
       LET j == [req[r] EXCEPT
                   !.ups = @ \cup {Upload("hls", req[r].cur, ContentType(req[r].cur), out)}]
       IN \E n \in NextUploads(j, hlsFiles, Index1_ThumbnailPath(j.vid, hlsFiles)) :
            req' = [req EXCEPT ![r] = n]
  /\ UNCHANGED <<variant, fsVars, videos, thumbnails>>

Index1Next(r) ==
  \/ Index1_Receive(r)
  \/ Index1_LookupDone(r)
  \/ Index1_DownloadDone(r)
  \/ Index1_ThumbDone(r)
  \/ Index1_TranscodeDone(r)
  \/ Index1_ThumbUploadDone(r)
  \/ Index1_HlsUploadDone(r)

----------------------------------------------------------------------------
\* src/unnamed/part_000, lines 29-127.

\* Part0_Receive, had line 31 been left out.
Part0_Receive_Unvalidated(r) ==
  /\ variant = "part0"
  /\ req[r].pc = "idle"
  /\ \E vid \in VideoIds \cup {NoId} :
       req' = [req EXCEPT ![r] =
                 Log(Log([req[r] EXCEPT !.vid = vid, !.pc = "lookup",
                                        !.resp = Append(@, Accepted)],
                         "res.202"),
                     "db.select")]
  /\ UNCHANGED <<variant, fsVars, videos, thumbnails>>

\* The request arrives: the 400, or the 202 and the start of the record lookup.
Part0_Receive(r) ==
  /\ variant = "part0"
  /\ req[r].pc = "idle"
  /\ \E vid \in VideoIds \cup {NoId} :
       LET j == [req[r] EXCEPT !.vid = vid] IN
       req' = [req EXCEPT ![r] =
                 IF vid = NoId
                 THEN Log([j EXCEPT !.pc = "rejected", !.resp = Append(@, BadRequest)], "res.400")
                 ELSE Log(Log([j EXCEPT !.pc = "lookup", !.resp = Append(@, Accepted)],
                              "res.202"),
                          "db.select")]
  /\ UNCHANGED <<variant, fsVars, videos, thumbnails>>

\* The lookup resolves: throw on error or no data; else the two mkdirSync calls,
\* inside the try, and the start of the download.
Part0_LookupDone(r) ==
  /\ variant = "part0"
  /\ req[r].pc = "lookup"
  /\ \E out \in LookupOutcomes(req[r].vid), mkRaw \in Outcomes, mkHls \in Outcomes :
       LET j == [req[r] EXCEPT !.lookupRes = out]
           b == Log(j, "fs.mkdir.raw")
           c == Log(b, "fs.mkdir.hls")
       IN IF out = "error"
          THEN /\ mkRaw = "ok" /\ mkHls = "ok"
               /\ req' = [req EXCEPT ![r] = Catch(j)]
               /\ UNCHANGED fsVars
          ELSE /\ (mkRaw = "error" => mkHls = "ok")
               /\ req' = [req EXCEPT ![r] =
                            IF mkRaw = "error" THEN Catch(b)
                            ELSE IF mkHls = "error" THEN Catch(c)
                            ELSE Log([c EXCEPT !.pc = "download"],
                                     "storage.raw.download")]
               /\ rawDir' = (rawDir \/ mkRaw = "ok")
               /\ hlsDir' = (hlsDir \/ (mkRaw = "ok" /\ mkHls = "ok"))
               /\ UNCHANGED <<rawFiles, hlsFiles>>
  /\ UNCHANGED <<variant, videos, thumbnails>>

\* Part0_DownloadDone, had line 62 not thrown downloadError.
Part0_DownloadDone_Unchecked(r) ==
  /\ variant = "part0"
  /\ req[r].pc = "download"
  /\ \E out \in Outcomes :
       LET j == [req[r] EXCEPT !.dlRes = out] IN
       /\ req' = [req EXCEPT ![r] =
                    IF rawDir
                    THEN Log([j EXCEPT !.pc = "thumb"], "ffmpeg.screenshots")
                    ELSE Catch(j)]
       /\ rawFiles' = IF rawDir /\ out = "ok" THEN rawFiles \cup {j.vid} ELSE rawFiles
  /\ UNCHANGED <<variant, rawDir, hlsDir, hlsFiles, videos, thumbnails>>

\* The download resolves: throw on error; else writeFileSync(localRawPath),
\* which throws when temp_raw is gone, and the start of the screenshot.
Part0_DownloadDone(r) ==
  /\ variant = "part0"
  /\ req[r].pc = "download"
  /\ \E out \in Outcomes :
       LET j == [req[r] EXCEPT !.dlRes = out]
           written == out = "ok" /\ rawDir
       IN /\ req' = [req EXCEPT ![r] =
                       IF written
                       THEN Log([j EXCEPT !.pc = "thumb"], "ffmpeg.screenshots")
                       ELSE Catch(j)]
          /\ rawFiles' = IF written THEN rawFiles \cup {j.vid} ELSE rawFiles
  /\ UNCHANGED <<variant, rawDir, hlsDir, hlsFiles, videos, thumbnails>>

\* The screenshot ends: 'error' rejects, which throws; 'end' starts the transcode.
Part0_ThumbDone(r) ==
  /\ variant = "part0"
  /\ req[r].pc = "thumb"
  /\ \E out \in EncoderOutcomes(req[r].vid) :
       LET j == [req[r] EXCEPT !.thumbRes = out] IN
       /\ req' = [req EXCEPT ![r] =
                    IF out = "error" THEN Catch(j)
                    ELSE Log([j EXCEPT !.pc = "transcode"], "ffmpeg.hls")]
       /\ hlsFiles' = IF out = "ok" THEN [hlsFiles EXCEPT ![ThumbnailFile] = r]
                       ELSE hlsFiles
  /\ UNCHANGED <<variant, rawDir, hlsDir, rawFiles, videos, thumbnails>>

\* The transcode ends: 'error' rejects; else readFileSync(localThumbnailPath),
\* which throws when thumbnail.png is gone, and the start of its upload.
Part0_TranscodeDone(r) ==
  /\ variant = "part0"
  /\ req[r].pc = "transcode"
  /\ \E out \in EncoderOutcomes(req[r].vid) :
       LET j == [req[r] EXCEPT !.transRes = out]
           files == IF out = "ok"
                    THEN [f \in Files |-> IF f \in HlsOutput THEN r ELSE hlsFiles[f]]
                    ELSE hlsFiles
       IN /\ hlsFiles' = files
          /\ req' = [req EXCEPT ![r] =
                       IF out = "error" \/ ~ThumbnailExists(files) THEN Catch(j)
                       ELSE Log([j EXCEPT !.pc = "thumbUpload", !.cur = ThumbnailFile,
                                          !.curOwner = files[ThumbnailFile]],
                                "storage.thumbnails.upload")]
  /\ UNCHANGED <<variant, rawDir, hlsDir, rawFiles, videos, thumbnails>>

\* The thumbnail upload resolves: an error is thrown; else readdirSync and the
\* first HLS upload.  thumbnail_path is always thumbnailFileName.
Part0_ThumbUploadDone(r) ==
  /\ variant = "part0"
  /\ req[r].pc = "thumbUpload"
  /\ \E out \in ThumbUploadOutcomes(req[r].vid) :
       LET j == [req[r] EXCEPT
                   !.thumbUpRes = out,
                   !.ups = @ \cup {Upload("thumbnails", ThumbnailFile, "image/png", out)}]
           next == IF out = "error" THEN {Catch(j)}
                   ELSE StartHlsUpload(j, hlsDir, hlsFiles, ThumbnailFileName(j.vid))
       IN /\ thumbnails' = IF out = "ok"
                           THEN thumbnails \cup {ThumbnailFileName(j.vid)}
                           ELSE thumbnails
          /\ \E n \in next : req' = [req EXCEPT ![r] = n]
  /\ UNCHANGED <<variant, fsVars, videos>>

\* One HLS upload resolves: an error is thrown; else the next file, or the
\* 'ready' update.
Part0_HlsUploadDone(r) ==
  /\ variant = "part0"
  /\ req[r].pc = "hlsUpload"
  /\ \E out \in Outcomes :
       LET j == [req[r] EXCEPT
                   !.ups = @ \cup {Upload("hls", req[r].cur, ContentType(req[r].cur), out)}]
           next == IF out = "error" THEN {Catch(j)}
                   ELSE NextUploads(j, hlsFiles, ThumbnailFileName(j.vid))
       IN \E n \in next : req' = [req EXCEPT ![r] = n]
  /\ UNCHANGED <<variant, fsVars, videos, thumbnails>>

Part0Next(r) ==
  \/ Part0_Receive(r)
  \/ Part0_LookupDone(r)
  \/ Part0_DownloadDone(r)
  \/ Part0_ThumbDone(r)
  \/ Part0_TranscodeDone(r)
  \/ Part0_ThumbUploadDone(r)
  \/ Part0_HlsUploadDone(r)

----------------------------------------------------------------------------
\* src/index.js, lines 174-302.

\* The request arrives: the 400, or the 202 and the start of the record lookup.
Index2_Receive(r) ==
  /\ variant = "index2"
  /\ req[r].pc = "idle"
  /\ \E vid \in VideoIds \cup {NoId} :
       LET j == [req[r] EXCEPT !.vid = vid] IN
       req' = [req EXCEPT ![r] =
                 IF vid = NoId
                 THEN Log([j EXCEPT !.pc = "rejected", !.resp = Append(@, BadRequest)], "res.400")
                 ELSE Log(Log([j EXCEPT !.pc = "lookup", !.resp = Append(@, Accepted)],
                              "res.202"),
                          "db.select")]
  /\ UNCHANGED <<variant, fsVars, videos, thumbnails>>

\* The lookup resolves: throw on error or no data; else the two mkdirSync calls
\* and the read of tempOutputDir, a name declared nowhere: a ReferenceError,
\* thrown inside the try.  No later line of this handler is ever reached.
Index2_LookupDone(r) ==
  /\ variant = "index2"
  /\ req[r].pc = "lookup"
  /\ \E out \in LookupOutcomes(req[r].vid), mkRaw \in Outcomes, mkHls \in Outcomes :
       LET j == [req[r] EXCEPT !.lookupRes = out]
           b == Log(j, "fs.mkdir.raw")
           c == Log(b, "fs.mkdir.hls")
       IN IF out = "error"
          THEN /\ mkRaw = "ok" /\ mkHls = "ok"
               /\ req' = [req EXCEPT ![r] = Catch(j)]
               /\ UNCHANGED fsVars
          ELSE /\ (mkRaw = "error" => mkHls = "ok")
               /\ req' = [req EXCEPT ![r] = IF mkRaw = "error" THEN Catch(b) ELSE Catch(c)]
               /\ rawDir' = (rawDir \/ mkRaw = "ok")
               /\ hlsDir' = (hlsDir \/ (mkRaw = "ok" /\ mkHls = "ok"))
               /\ UNCHANGED <<rawFiles, hlsFiles>>
  /\ UNCHANGED <<variant, videos, thumbnails>>

Index2Next(r) ==
  \/ Index2_Receive(r)
  \/ Index2_LookupDone(r)

Next == \E r \in Reqs : Index1Next(r) \/ Part0Next(r) \/ Index2Next(r) \/ UpdateDone(r)

Spec == Init /\ [][Next]_vars

\* An awaited call to the record store or the blob store resolves.
StoreCallResolves(r) ==
  \/ Index1_LookupDone(r)
  \/ Index1_DownloadDone(r)
  \/ Index1_ThumbUploadDone(r)
  \/ Index1_HlsUploadDone(r)
  \/ Part0_LookupDone(r)
  \/ Part0_DownloadDone(r)
  \/ Part0_ThumbUploadDone(r)
  \/ Part0_HlsUploadDone(r)
  \/ Index2_LookupDone(r)
  \/ UpdateDone(r)

\* The stores answer every call; the encoder is a child process whose 'end' or
\* 'error' event nothing in the handler bounds in time, so no fairness is
\* assumed of it.
FairSpec == Spec /\ WF_vars(\E r \in Reqs : StoreCallResolves(r))

----------------------------------------------------------------------------
\* Properties.

\* What a request has called, read off its log.
Has(j, e) == \E i \in DOMAIN j.log : j.log[i] = e
BlobCalls == {"storage.raw.download", "storage.thumbnails.upload", "storage.hls.upload"}
EncoderCalls == {"ffmpeg.screenshots", "ffmpeg.hls"}
StatusWrites(j) ==
  SelectSeq(j.log, LAMBDA e : e \in {"db.update.ready", "db.update.failed"})
Responses(j) == SelectSeq(j.log, LAMBDA e : e \in {"res.400", "res.202", "res.500"})

\* The run of an accepted request is over: its finally block ran, or its
\* promise was rejected with nothing to catch it.
Ended(r) == req[r].pc \in {"done", "crashed"}
\* The request has created its staging and not yet ended.
Staged(r) == Has(req[r], "fs.mkdir.hls") /\ ~Ended(r)
\* Every playlist and segment file of the transcode was uploaded to hls, without error.
RequiredUploadsOk(j) ==
  \A f \in HlsOutput : /\ Upload("hls", f, ContentType(f), "ok") \in j.ups
                        /\ Upload("hls", f, ContentType(f), "error") \notin j.ups

\* The step of the run that a logged call belongs to; 0 for calls outside the
\* six steps (the response, mkdir, rm).
StepOf(e) ==
  CASE e = "db.select" -> 1
    [] e = "storage.raw.download" -> 2
    [] e = "ffmpeg.screenshots" -> 3
    [] e = "ffmpeg.hls" -> 4
    [] e \in {"storage.thumbnails.upload", "storage.hls.upload"} -> 5
    [] e \in {"db.update.ready", "db.update.failed"} -> 6
    [] OTHER -> 0
\* The uploads a request has started.
UploadCalls(j) == SelectSeq(j.log, LAMBDA e : StepOf(e) = 5)

\* C1: when a run ends, however it ends, neither staging directory exists.
C1_StagingGoneWhenRunEnds ==
  [][\A r \in Reqs : (~Ended(r) /\ Ended(r)') => (~rawDir' /\ ~hlsDir')]_vars

\* C2: a run sets status 'ready' only if the playlist and every segment were
\* uploaded and none of those uploads returned an error.
C2_ReadyOnlyIfAllUploaded ==
  \A r \in Reqs : req[r].final.status = "ready" => RequiredUploadsOk(req[r])

\* C3: while a request holds its staging, no step of a request for another
\* video id changes the staging directories or their files.
C3_StagingExclusive ==
  [][\A r \in Reqs, o \in Reqs :
       (/\ Staged(r)
        /\ req'[o] # req[o]
        /\ req'[o].vid # req[r].vid) => UNCHANGED fsVars]_vars

\* C4: a run whose thumbnail extraction failed and whose transcode and required
\* uploads succeeded ends 'ready' with thumbnail_path null.  Stated for the runs
\* whose video id no other request carries, where the claim is easiest to meet.
C4_ThumbnailFailureNotFatal ==
  \A r \in Reqs :
    (/\ req[r].pc = "done"
     /\ \A o \in Reqs \ {r} : req[o].vid # req[r].vid
     /\ req[r].thumbRes = "error"
     /\ req[r].transRes = "ok"
     /\ RequiredUploadsOk(req[r]))
    => (req[r].final.status = "ready" /\ req[r].final.thumbnail_path = Null)

\* C5: a run whose record lookup failed writes status 'failed', once, and calls
\* the blob store at no time.
C5_LookupFailure ==
  \A r \in Reqs :
    req[r].lookupRes = "error" =>
      /\ \A e \in BlobCalls : ~Has(req[r], e)
      /\ StatusWrites(req[r]) = <<"db.update.failed">>
      /\ req[r].final.status = "failed"
C5_Witness ==
  \E r \in Reqs : req[r].pc = "done" /\ req[r].lookupRes = "error"

\* C6: a run whose download failed writes status 'failed', once, and invokes
\* the encoder at no time.
C6_DownloadFailure ==
  \A r \in Reqs :
    req[r].dlRes = "error" =>
      /\ \A e \in EncoderCalls : ~Has(req[r], e)
      /\ StatusWrites(req[r]) = <<"db.update.failed">>
      /\ req[r].final.status = "failed"
C6_Witness ==
  \E r \in Reqs : req[r].pc = "done" /\ req[r].dlRes = "error"

\* C7: a run whose lookup, download, transcode and required uploads all
\* succeeded ends with status 'ready', hls_path `${videoId}/playlist.m3u8` and
\* thumbnail_path `${videoId}.png` or null.
C7_SuccessEndsReady ==
  \A r \in Reqs :
    (/\ req[r].pc = "done"
     /\ req[r].lookupRes = "ok"
     /\ req[r].dlRes = "ok"
     /\ req[r].transRes = "ok"
     /\ RequiredUploadsOk(req[r]))
    => /\ req[r].final.status = "ready"
       /\ req[r].final.hls_path = HlsKey(req[r].vid, PlaylistFile)
       /\ req[r].final.thumbnail_path \in {ThumbnailFileName(req[r].vid), Null}

\* C8: a run that has ended wrote the status exactly once, as its last call
\* before the cleanup.
C8_StatusWrittenOnce ==
  \A r \in Reqs :
    Ended(r) =>
      /\ Len(StatusWrites(req[r])) = 1
      /\ Len(req[r].log) >= 2
      /\ req[r].log[Len(req[r].log)] = "fs.rm"
      /\ req[r].log[Len(req[r].log) - 1] \in {"db.update.ready", "db.update.failed"}

\* C9: a request without videoId is answered 400 {error: 'videoId is required'}
\* and calls nothing else: no record store, blob store, encoder or mkdir.
C9_MissingVideoId ==
  \A r \in Reqs :
    (req[r].pc # "idle" /\ req[r].vid = NoId) =>
      /\ req[r].pc = "rejected"
      /\ req[r].resp = <<BadRequest>>
      /\ req[r].log = <<"res.400">>
C9_Witness ==
  \E r \in Reqs : req[r].pc = "rejected" /\ req[r].resp = <<BadRequest>>

\* C10: a request with a videoId is answered once, with 202, before anything
\* else is called, and nothing the run does later sends another response.
C10_SingleEarlyResponse ==
  \A r \in Reqs :
    req[r].pc \notin {"idle", "rejected"} =>
      /\ req[r].resp = <<Accepted>>
      /\ req[r].log[1] = "res.202"
      /\ Responses(req[r]) = <<"res.202">>
C10_Witness ==
  \E r \in Reqs, o \in Reqs :
    /\ req[r].pc = "done" /\ req[r].final.status = "failed"
    /\ req[o].pc = "done" /\ req[o].final.status = "ready"
    /\ req[r].resp = <<Accepted>> /\ req[o].resp = <<Accepted>>

\* C11: a run whose only failure is the thumbnail upload ends 'ready' with
\* thumbnail_path null, and a run writes thumbnail_path `${videoId}.png` only
\* if its upload of that key to the thumbnails bucket succeeded.
C11_ThumbnailPathOnlyIfUploaded ==
  \A r \in Reqs :
    /\ (req[r].final.thumbnail_path # Null => req[r].thumbUpRes = "ok")
    /\ (/\ req[r].pc = "done"
        /\ req[r].thumbUpRes = "error"
        /\ RequiredUploadsOk(req[r])) => req[r].final.status = "ready"

\* C12: a run that has started the encoder reaches its terminal status and its
\* cleanup, whether or not the encoder ever reports completion.
C12_EncoderHangBounded ==
  \A r \in Reqs : (req[r].pc \in {"thumb", "transcode"}) ~> (req[r].pc = "done")

\* C13: an object already stored at a run's thumbnail key never makes that
\* run's thumbnail upload fail: while a run awaits its upload to a key that a
\* finished 'ready' run of the same id has filled, the store can still accept it.
C13_RerunOverwrites ==
  \A r \in Reqs :
    (/\ req[r].pc = "thumbUpload"
     /\ ThumbnailFileName(req[r].vid) \in thumbnails
     /\ \E o \in Reqs \ {r} : /\ req[o].pc = "done"
                              /\ req[o].vid = req[r].vid
                              /\ req[o].final.status = "ready")
      => "ok" \in ThumbUploadOutcomes(req[r].vid)

\* C14: a run of an accepted request that ends without the 'ready' update has
\* had its error caught and has written status 'failed'; the 'failed' update
\* sets neither hls_path nor thumbnail_path, which only a 'ready' update writes.
C14_EveryErrorCaught ==
  \A r \in Reqs :
    /\ (Ended(r) /\ ~Has(req[r], "db.update.ready"))
          => (Has(req[r], "db.update.failed") /\ req[r].final.status = "failed")
    /\ (req[r].final.hls_path # Null \/ req[r].final.thumbnail_path # Null)
          => req[r].final.status = "ready"

\* C15: every upload of a run carries the content type of its file's kind
\* (playlist, segment, thumbnail image), and only playlists and segments are
\* uploaded to the hls bucket.
C15_ContentTypeByKind ==
  \A r \in Reqs : \A u \in req[r].ups :
    LET kind == CASE u.file.ext = "m3u8" -> "application/vnd.apple.mpegurl"
                  [] u.file.ext = "ts" -> "video/MP2T"
                  [] u.file.ext = "png" -> "image/png"
                  [] OTHER -> ""
    IN /\ u.ctype = kind
       /\ u.bucket = "hls" => u.file \in HlsOutput

\* C16: the calls of one run are made in the order lookup, download,
\* screenshot, transcode, uploads, status write, each of the first four and
\* the status write once; a call is made only when the call of the step before
\* has resolved (and, but for the screenshot, succeeded); and the status write
\* is made only when every upload the run started has resolved.
C16_StepsInOrder ==
  \A r \in Reqs :
    LET j == req[r]
        steps == SelectSeq(j.log, LAMBDA e : StepOf(e) # 0)
    IN
    /\ \A i \in 1..(Len(steps) - 1) :
          /\ StepOf(steps[i]) <= StepOf(steps[i + 1])
          /\ StepOf(steps[i]) = StepOf(steps[i + 1]) => StepOf(steps[i]) = 5
    /\ Has(j, "storage.raw.download") => j.lookupRes = "ok"
    /\ Has(j, "ffmpeg.screenshots") => j.dlRes = "ok"
    /\ Has(j, "ffmpeg.hls") => j.thumbRes # "none"
    /\ Len(UploadCalls(j)) > 0 => j.transRes = "ok"
    /\ Len(StatusWrites(j)) > 0 => Len(UploadCalls(j)) = Cardinality(j.ups)
    /\ Len(UploadCalls(j)) \in {Cardinality(j.ups), Cardinality(j.ups) + 1}
C16_Witness ==
  \E r \in Reqs :
    /\ req[r].pc = "done"
    /\ req[r].final.status = "ready"
    /\ Len(UploadCalls(req[r])) = Cardinality(Files) + 1

\* C17: when the final update resolves, with or without error, the run makes
\* no further status write and removes the staging; and a run is reported
\* ready only if its 'ready' update has been applied to the record.
C17_FinalUpdateFailure ==
  [][\A r \in Reqs :
       (req[r].pc \in {"updateReady", "updateFailed"} /\ req'[r] # req[r]) =>
         /\ req'[r].pc = "done"
         /\ req'[r].log = Append(req[r].log, "fs.rm")
         /\ ~rawDir' /\ ~hlsDir'
         /\ req'[r].reported => videos'[req[r].vid] = req[r].final]_vars

\* C18: whatever the interleaving with requests for other video ids, a file a
\* run reads from its staging and uploads under `${videoId}/` was written by
\* that run's own encoder.
C18_UploadsOwnOutput ==
  \A r \in Reqs :
    (/\ req[r].pc = "hlsUpload"
     /\ \A o \in Reqs \ {r} : req[o].vid # req[r].vid)
      => req[r].curOwner = r
====
